---- MODULE Spec2Model ----
(***************************************************************************)
(* Model of the tweet bot's AIService (src/src/index.ts, the part after    *)
(* the server bootstrap is services/ai-service.ts) and of the HTTP routes  *)
(* and Discord handler that call it.                                       *)
(*                                                                         *)
(* Strings are sequences of one-character strings, so that lower-casing,   *)
(* the regular expressions and String.includes are computed character by   *)
(* character.  Time is counted in hours (the smallest interval the code    *)
(* uses is the 3600000 ms of the second fallback tweet); scores are held   *)
(* in units of 1/ScoreUnit so that engagement/10 and days/15 stay          *)
(* integers.                                                               *)
(***************************************************************************)
EXTENDS Integers, Sequences, FiniteSets, TLC

(***************************************************************************)
(* Strings                                                                 *)
(***************************************************************************)
\* (f \o <<>> is f, held as a tuple)
Chars(s) == [i \in 1..Len(s) |-> SubSeq(s, i, i)] \o <<>>

UpperLetters == Chars("ABCDEFGHIJKLMNOPQRSTUVWXYZ")
LowerLetters == Chars("abcdefghijklmnopqrstuvwxyz")
DigitChars == Chars("0123456789")

Range(f) == {f[i] : i \in DOMAIN f}

UpperSet == Range(UpperLetters)
WordCharSet == Range(LowerLetters) \cup UpperSet \cup Range(DigitChars) \cup {"_"}
SpaceSet == {" "}

\* String.prototype.toLowerCase, one character
LowerChar(c) ==
    IF c \in UpperSet
    THEN LowerLetters[CHOOSE i \in 1..26 : UpperLetters[i] = c]
    ELSE c

\* String.prototype.toLowerCase
toLowerCase(s) == [i \in 1..Len(s) |-> LowerChar(s[i])] \o <<>>

\* s.startsWith(t, from - 1): t occurs in s at position from
MatchAt(s, t, from) ==
    /\ from + Len(t) - 1 <= Len(s)
    /\ SubSeq(s, from, from + Len(t) - 1) = t

\* String.prototype.includes
includes(s, t) == \E i \in 1..(Len(s) - Len(t) + 1) : MatchAt(s, t, i)

\* String.prototype.startsWith
startsWith(s, t) == MatchAt(s, t, 1)

\* the regular expression assertion \b between positions i-1 and i of s
IsWordAt(s, i) == i >= 1 /\ i <= Len(s) /\ s[i] \in WordCharSet

WordBoundaryAt(s, i) == IsWordAt(s, i - 1) # IsWordAt(s, i)

\* message.match(/\b\w+\b/g): the maximal runs of word characters, in order
RECURSIVE WordsFrom(_, _)
WordsFrom(s, i) ==
    IF i > Len(s) THEN <<>>
    ELSE IF ~IsWordAt(s, i) THEN WordsFrom(s, i + 1)
    ELSE LET stops == {j \in i..Len(s) : ~IsWordAt(s, j + 1)}
             e == CHOOSE j \in stops : \A k \in stops : j <= k
         IN  <<SubSeq(s, i, e)>> \o WordsFrom(s, e + 1)

MatchWords(s) == WordsFrom(s, 1)

\* message.match(/"([^"]+)"/g)?.map(phrase => phrase.slice(1, -1)) || []
RECURSIVE QuotedFrom(_, _)
QuotedFrom(s, i) ==
    IF i > Len(s) THEN <<>>
    ELSE IF s[i] # "\"" THEN QuotedFrom(s, i + 1)
    ELSE LET closes == {j \in (i + 1)..Len(s) : s[j] = "\""}
         IN  IF closes = {} THEN <<>>
             ELSE LET e == CHOOSE j \in closes : \A k \in closes : j <= k
                  IN  IF e = i + 1
                      THEN QuotedFrom(s, i + 1)
                      ELSE <<SubSeq(s, i + 1, e - 1)>> \o QuotedFrom(s, e + 1)

MatchQuoted(s) == QuotedFrom(s, 1)

\* (text.match(new RegExp(escaped term, "gi")) || []).length:
\* the matches of a global regular expression do not overlap
RECURSIVE OccurrencesFrom(_, _, _)
OccurrencesFrom(s, t, i) ==
    IF i + Len(t) - 1 > Len(s) THEN 0
    ELSE IF MatchAt(s, t, i) THEN 1 + OccurrencesFrom(s, t, i + Len(t))
    ELSE OccurrencesFrom(s, t, i + 1)

Occurrences(s, t) == OccurrencesFrom(s, t, 1)

\* new RegExp(`\\b${escaped term}\\b`, "gi").test(text)
WholeWordTest(s, t) ==
    \E i \in 1..(Len(s) - Len(t) + 1) :
        /\ MatchAt(s, t, i)
        /\ WordBoundaryAt(s, i)
        /\ WordBoundaryAt(s, i + Len(t))

\* [...new Set(list)]: first occurrences, in order
RECURSIVE Distinct(_)
Distinct(list) ==
    IF list = <<>> THEN <<>>
    ELSE LET front == Distinct(SubSeq(list, 1, Len(list) - 1))
             x == list[Len(list)]
         IN  IF x \in Range(front) THEN front ELSE Append(front, x)

Min(a, b) == IF a < b THEN a ELSE b
Max(a, b) == IF a > b THEN a ELSE b

\* slice(0, n + 1): one entry too many
Slice0OneMore(list, n) == SubSeq(list, 1, Min(Len(list), n + 1))

\* slice(0, n - 1): one entry too few
Slice0OneLess(list, n) == SubSeq(list, 1, Min(Len(list), n - 1))

\* Array.prototype.slice(0, n)
Slice0(list, n) == SubSeq(list, 1, IF Len(list) < n THEN Len(list) ELSE n)

\* sum of f over the entries of a list
RECURSIVE SumSeq(_)
SumSeq(list) ==
    IF list = <<>> THEN 0
    ELSE list[1] + SumSeq(Tail(list))

\* Array.prototype.sort with a comparator that orders by a numeric key,
\* largest key first; the sort is stable (ECMAScript 2019), so entries with
\* equal keys keep their order.  (s \o <<>> is s, held as a tuple.)
SortDescByKey(list, keys) ==
    LET n == Len(list)
        ks == keys \o <<>>
        rank == [k \in 1..n |->
                    Cardinality({j \in 1..n :
                        ks[j] > ks[k] \/ (ks[j] = ks[k] /\ j < k)}) + 1] \o <<>>
        at == [p \in 1..n |-> CHOOSE k \in 1..n : rank[k] = p]
    IN  [p \in 1..n |-> list[at[p]]] \o <<>>

(***************************************************************************)
(* Program constants                                                       *)
(***************************************************************************)
RecentCount == 75
TopRelevantCount == 150
MaxContextTweets == 200
GrepBoost == 50
GrepContextLines == 20
PhraseScore == 100
TermScore == 10
OccurrenceBonus == 5
WholeWordBonus == 5
EngagementDivisor == 10
EngagementCap == 20
RecencyDays == 30
RecencyMax == 2
RecencyDivisor == 15
HoursPerDay == 24
\* scores are counted in 1/360: the least unit in which engagement / 10 and
\* hours / (24 * 15) are whole numbers
ScoreUnit == 360

StopWordList ==
    << "the", "a", "an", "and", "or", "but", "in", "on", "at", "to", "for",
       "of", "with", "by", "is", "are", "was", "were", "be", "been", "have",
       "has", "had", "do", "does", "did", "will", "would", "could", "should",
       "may", "might", "can", "about", "what", "when", "where", "why", "how",
       "who", "which", "that", "this", "these", "those", "i", "you", "he",
       "she", "it", "we", "they", "me", "him", "her", "us", "them" >>

stopWords == {Chars(w) : w \in Range(StopWordList)}

ReleaseTriggers == {Chars("release"), Chars("launch"), Chars("drop"), Chars("when")}

ReleaseTerms ==
    << Chars("introducing"), Chars("coming"), Chars("going live"),
       Chars("launch"), Chars("release"), Chars("drop"), Chars("available"),
       Chars("announcing"), Chars("debut") >>

(***************************************************************************)
(* AIService.extractSearchTerms                                            *)
(***************************************************************************)
expandedTerms(message) ==
    (IF \E t \in ReleaseTriggers : includes(message, t) THEN ReleaseTerms ELSE <<>>)
    \o (IF includes(message, Chars("ninja"))
        THEN <<Chars("ninja"), Chars("kurosun ninja")>> ELSE <<>>)
    \o (IF includes(message, Chars("samurai"))
        THEN <<Chars("samurai"), Chars("kurosun samurai")>> ELSE <<>>)
    \o (IF includes(message, Chars("hana")) THEN <<Chars("hana")>> ELSE <<>>)

\* the filter without the stop-word test
KeepWordLengthOnly(word) == Len(word) > 2

KeepWord(word) == Len(word) > 2 /\ word \notin stopWords

extractSearchTerms(userMessage) ==
    LET message == toLowerCase(userMessage)
        words == MatchWords(message)
        quotedPhrases == MatchQuoted(message)
    IN  Distinct(quotedPhrases \o expandedTerms(message) \o SelectSeq(words, KeepWord))

(***************************************************************************)
(* AIService.calculateRelevanceScore                                       *)
(***************************************************************************)
PhrasePoints(tweetText, originalMessage) ==
    LET quotedPhrases == MatchQuoted(originalMessage)
    IN  SumSeq([i \in 1..Len(quotedPhrases) |->
                  IF includes(tweetText, toLowerCase(quotedPhrases[i]))
                  THEN PhraseScore * ScoreUnit ELSE 0])

\* the score of a term without the whole-word bonus
TermPointsNoWholeWord(tweetText, term) ==
    LET termLower == toLowerCase(term)
    IN  IF includes(tweetText, termLower)
        THEN TermScore * ScoreUnit
             + (Occurrences(tweetText, termLower) - 1) * OccurrenceBonus * ScoreUnit
        ELSE 0

TermPoints(tweetText, term) ==
    LET termLower == toLowerCase(term)
    IN  IF includes(tweetText, termLower)
        THEN TermScore * ScoreUnit
             + (Occurrences(tweetText, termLower) - 1) * OccurrenceBonus * ScoreUnit
             + (IF WholeWordTest(tweetText, termLower)
                THEN WholeWordBonus * ScoreUnit ELSE 0)
        ELSE 0

\* engagement / 10 without Math.min(..., 20)
EngagementPointsNoCap(tweet) ==
    ((tweet.likes + tweet.retweets + tweet.replies) * ScoreUnit) \div EngagementDivisor

EngagementPoints(tweet) ==
    LET engagement == tweet.likes + tweet.retweets + tweet.replies
    IN  Min((engagement * ScoreUnit) \div EngagementDivisor, EngagementCap * ScoreUnit)

\* daysSincePosted = hoursSincePosted / 24
RecencyPoints(tweet, clock) ==
    LET hoursSincePosted == clock - tweet.timestamp
    IN  IF hoursSincePosted < RecencyDays * HoursPerDay
        THEN Max(0, RecencyMax * ScoreUnit
                    - (hoursSincePosted * ScoreUnit) \div (HoursPerDay * RecencyDivisor))
        ELSE 0

calculateRelevanceScore(tweet, searchTerms, originalMessage, clock) ==
    LET tweetText == toLowerCase(tweet.text)
    IN  PhrasePoints(tweetText, originalMessage)
        + SumSeq([i \in 1..Len(searchTerms) |-> TermPoints(tweetText, searchTerms[i])])
        + EngagementPoints(tweet)
        + RecencyPoints(tweet, clock)

(***************************************************************************)
(* AIService.deduplicateTweets                                             *)
(***************************************************************************)
\* no test of seen: every record is kept
deduplicateTweetsNoTest(list) == list

\* seen.add before the test of seen: no record is kept
deduplicateTweetsAddFirst(list) == <<>>

deduplicateTweets(list) ==
    LET ids == [i \in 1..Len(list) |-> list[i].id] \o <<>>
        first == {i \in 1..Len(list) : \A j \in 1..(i - 1) : ids[j] # ids[i]}
        pos == [i \in 1..Len(list) |-> Cardinality({j \in first : j <= i})] \o <<>>
    IN  [p \in 1..Cardinality(first) |-> list[CHOOSE i \in first : pos[i] = p]] \o <<>>

(***************************************************************************)
(* The data file twitter-UserTweets-<handle>.json.  A file is a record     *)
(* [exists, records, layout]: the JsonTweet array it holds and the way the *)
(* array is laid out in lines.  loadJsonData parses the records, the grep  *)
(* search reads the lines.                                                 *)
(***************************************************************************)
Quote == <<"\"">>

\* "key": "value" as it stands in the file
StringField(key, value) ==
    Quote \o Chars(key) \o Quote \o Chars(": ") \o Quote \o value \o Quote

\* decimal digits of a natural number
RECURSIVE Digits(_)
Digits(n) ==
    IF n < 10 THEN <<DigitChars[n + 1]>>
    ELSE Append(Digits(n \div 10), DigitChars[(n % 10) + 1])

NumberField(key, n) == Quote \o Chars(key) \o Quote \o Chars(": ") \o Digits(n)

\* one record on one line
RecordLine(r) ==
    Chars("{") \o StringField("id", r.id) \o Chars(", ")
    \o StringField("full_text", r.full_text) \o Chars(", ")
    \o NumberField("favorite_count", r.favorite_count) \o Chars("},")

\* one field per line, as JSON.stringify(data, null, 2) writes it; pad is the
\* number of lines of other fields between "id" and "full_text"
RecordLines(r, pad) ==
    <<Chars("  {"), Chars("    ") \o StringField("id", r.id) \o Chars(",")>>
    \o [k \in 1..pad |-> Chars("    ") \o NumberField("f", k) \o Chars(",")]
    \o <<Chars("    ") \o StringField("full_text", r.full_text) \o Chars(","),
         Chars("    ") \o NumberField("favorite_count", r.favorite_count),
         Chars("  },")>>

\* one field per line with "full_text" written before "id"; pad is the number
\* of lines of other fields between them
RecordLinesTextFirst(r, pad) ==
    <<Chars("  {"), Chars("    ") \o StringField("full_text", r.full_text) \o Chars(",")>>
    \o [k \in 1..pad |-> Chars("    ") \o NumberField("f", k) \o Chars(",")]
    \o <<Chars("    ") \o StringField("id", r.id) \o Chars(","),
         Chars("    ") \o NumberField("favorite_count", r.favorite_count),
         Chars("  },")>>

RECURSIVE Flatten(_)
Flatten(lists) ==
    IF lists = <<>> THEN <<>>
    ELSE lists[1] \o Flatten(Tail(lists))

\* fileContent.split("\n")
FileLines(f) ==
    CASE f.layout = "compact" ->
            <<Chars("[") \o Flatten([i \in 1..Len(f.records) |-> RecordLine(f.records[i])])
              \o Chars("]")>>
      [] f.layout = "records" ->
            <<Chars("[")>> \o [i \in 1..Len(f.records) |-> RecordLine(f.records[i])]
            \o <<Chars("]")>>
      [] f.layout = "pretty" ->
            <<Chars("[")>>
            \o Flatten([i \in 1..Len(f.records) |-> RecordLines(f.records[i], 0)])
            \o <<Chars("]")>>
      [] f.layout = "padded" ->
            <<Chars("[")>>
            \o Flatten([i \in 1..Len(f.records) |-> RecordLines(f.records[i], GrepContextLines)])
            \o <<Chars("]")>>
      [] f.layout = "before" ->
            <<Chars("[")>>
            \o Flatten([i \in 1..Len(f.records) |->
                            RecordLines(f.records[i], GrepContextLines - 1)])
            \o <<Chars("]")>>
      [] f.layout = "after" ->
            <<Chars("[")>>
            \o Flatten([i \in 1..Len(f.records) |->
                            RecordLinesTextFirst(f.records[i], GrepContextLines - 1)])
            \o <<Chars("]")>>

(***************************************************************************)
(* AIService.grepSearchJsonFile                                            *)
(***************************************************************************)
\* \s* from position i: the first position that holds no white space
RECURSIVE SkipSpace(_, _)
SkipSpace(s, i) ==
    IF i <= Len(s) /\ s[i] \in SpaceSet THEN SkipSpace(s, i + 1) ELSE i

\* contextLine.match(/"id":\s*"([^"]+)"/): the captured group of the first
\* match, or <<>> when the line has no match
IdCaptureAt(s, i) ==
    IF ~MatchAt(s, Chars("\"id\":"), i) THEN <<>>
    ELSE LET q == SkipSpace(s, i + 5)
         IN  IF q > Len(s) \/ s[q] # "\"" THEN <<>>
             ELSE LET closes == {j \in (q + 1)..Len(s) : s[j] = "\""}
                  IN  IF closes = {} THEN <<>>
                      ELSE LET e == CHOOSE j \in closes : \A k \in closes : j <= k
                           IN  SubSeq(s, q + 1, e - 1)

IdMatch(s) ==
    LET hits == {i \in 1..Len(s) : IdCaptureAt(s, i) # <<>>}
    IN  IF hits = {} THEN <<>>
        ELSE IdCaptureAt(s, CHOOSE i \in hits : \A k \in hits : i <= k)

\* line i is lines[i - 1] of the code
hasMatch(lines, i, searchTerms) ==
    LET line == toLowerCase(lines[i])
    IN  \E t \in 1..Len(searchTerms) : includes(line, toLowerCase(searchTerms[t]))

\* contextEnd one line later: the window is i - 20 .. i + 20
ContextRangeSymmetric(lines, i) ==
    LET contextStart == Max(0, (i - 1) - GrepContextLines)
        contextEnd == Min(Len(lines), (i - 1) + GrepContextLines + 1)
    IN  (contextStart + 1)..contextEnd

ContextRange(lines, i) ==
    LET contextStart == Max(0, (i - 1) - GrepContextLines)
        contextEnd == Min(Len(lines), (i - 1) + GrepContextLines)
    IN  (contextStart + 1)..contextEnd

\* the loop over the lines: the identifiers captured on the context lines of
\* the lines that hold a term
foundTweetIds(lines, searchTerms) ==
    LET ids == [j \in 1..Len(lines) |-> IdMatch(lines[j])]
        matching == {i \in 1..Len(lines) : hasMatch(lines, i, searchTerms)}
        context == UNION {ContextRange(lines, i) : i \in matching}
    IN  {ids[j] : j \in context} \ {<<>>}

\* a file that cannot be read gives no identifier (the catch block)
grepSearchJsonFile(searchTerms, f) ==
    IF ~f.exists THEN {}
    ELSE foundTweetIds(FileLines(f), searchTerms)

(***************************************************************************)
(* AIService.searchAllTweets                                               *)
(***************************************************************************)
ByTimestampDesc(list) == SortDescByKey(list, [i \in 1..Len(list) |-> list[i].timestamp])

\* score >= 0 for score > 0
IsCandidateOrZero(r) == r.score >= 0

\* if (score > 0) searchResults.push({ tweet, score })
IsCandidate(r) == r.score > 0

\* the boost added only to a score that is positive without it
scoreTweetsBoostPositive(allTweets, searchTerms, grepMatches, userMessage, clock) ==
    [i \in 1..Len(allTweets) |->
        LET score == calculateRelevanceScore(allTweets[i], searchTerms, userMessage, clock)
        IN  [tweet |-> allTweets[i],
             score |-> IF score > 0 /\ allTweets[i].id \in grepMatches
                       THEN score + GrepBoost * ScoreUnit
                       ELSE score]] \o <<>>

\* the boost added to every tweet
scoreTweetsBoostAll(allTweets, searchTerms, grepMatches, userMessage, clock) ==
    [i \in 1..Len(allTweets) |->
        [tweet |-> allTweets[i],
         score |-> calculateRelevanceScore(allTweets[i], searchTerms, userMessage, clock)
                   + GrepBoost * ScoreUnit]] \o <<>>

\* the loop over allTweets: every tweet with its score, the boost of a grep
\* match added
scoreTweets(allTweets, searchTerms, grepMatches, userMessage, clock) ==
    [i \in 1..Len(allTweets) |->
        LET score == calculateRelevanceScore(allTweets[i], searchTerms, userMessage, clock)
        IN  [tweet |-> allTweets[i],
             score |-> IF allTweets[i].id \in grepMatches
                       THEN score + GrepBoost * ScoreUnit
                       ELSE score]] \o <<>>

\* a sort that puts the later of two entries with equal scores first
ByScoreDescLaterFirst(searchResults) ==
    LET n == Len(searchResults)
        rank == [k \in 1..n |->
                    Cardinality({j \in 1..n :
                        \/ searchResults[j].score > searchResults[k].score
                        \/ (searchResults[j].score = searchResults[k].score /\ j > k)}) + 1]
                \o <<>>
    IN  [p \in 1..n |-> searchResults[CHOOSE k \in 1..n : rank[k] = p]] \o <<>>

\* searchResults.sort((a, b) => b.score - a.score)
ByScoreDesc(searchResults) ==
    SortDescByKey(searchResults, [i \in 1..Len(searchResults) |-> searchResults[i].score])

\* .slice(0, 150).map(result => result.tweet)
topRelevant(ranked) ==
    [i \in 1..Min(Len(ranked), TopRelevantCount) |-> ranked[i].tweet] \o <<>>

\* allTweets.slice(0, 0): no recency window
recentWindowNone(allTweets) == <<>>

\* const recentTweets = allTweets.slice(0, 75)
recentWindow(allTweets) == Slice0(allTweets, RecentCount)

\* now is Date.now() as calculateRelevanceScore reads it during the search,
\* readable tells whether readFileSync has returned the file
searchAllTweets(userMessage, allTweets, f, clock) ==
    LET searchTerms == extractSearchTerms(userMessage)
        recentTweets == recentWindow(allTweets)
        grepMatches == grepSearchJsonFile(searchTerms, f)
        scored == scoreTweets(allTweets, searchTerms, grepMatches, userMessage, clock)
        ranked == ByScoreDesc(SelectSeq(scored, IsCandidate))
        topRelevantTweets == topRelevant(ranked)
        combinedTweets == deduplicateTweets(recentTweets \o topRelevantTweets)
    IN  [now |-> clock,
         readable |-> f.exists,
         searchTerms |-> searchTerms,
         recentTweets |-> recentTweets,
         grepMatches |-> grepMatches,
         scored |-> scored,
         searchResults |-> ranked,
         topRelevantTweets |-> topRelevantTweets,
         combinedTweets |-> combinedTweets,
         result |-> Slice0(ByTimestampDesc(combinedTweets), MaxContextTweets)]

(***************************************************************************)
(* AIService.buildSmartContext.  The context string is held as a record:   *)
(* text is the fixed message or the header's variable parts, lines the     *)
(* rendered tweets.  calls counts the invocations made on the way.         *)
(***************************************************************************)
NoTweetsMessage == "No tweets available in memory."

NoSearch ==
    [now |-> 0, readable |-> TRUE, searchTerms |-> <<>>, recentTweets |-> <<>>, grepMatches |-> {},
     scored |-> <<>>, searchResults |-> <<>>, topRelevantTweets |-> <<>>, combinedTweets |-> <<>>,
     result |-> <<>>]

\* new Date(timestamp).toLocaleDateString(): the day the hour falls in
DateStr(timestamp) == timestamp \div HoursPerDay

TweetLine(tweet) ==
    [date |-> DateStr(tweet.timestamp), text |-> tweet.text,
     engagement |-> <<tweet.likes, tweet.retweets, tweet.replies>>,
     url |-> tweet.url]

\* the context of a non-empty corpus: the header's variable parts (total,
\* date range, number of relevant tweets, search terms) and a line per
\* relevant tweet
contextOf(list, relevantTweets, searchTerms) ==
    [text |-> <<Len(list), DateStr(list[Len(list)].timestamp),
                DateStr(list[1].timestamp), Len(relevantTweets.result), searchTerms>>,
     lines |-> [i \in 1..Len(relevantTweets.result) |->
                   TweetLine(relevantTweets.result[i])] \o <<>>,
     corpus |-> list,
     search |-> relevantTweets,
     calls |-> [extractSearchTerms |-> 2,
                calculateRelevanceScore |-> Len(list),
                readFileSync |-> 1]]

\* the test of the empty corpus after the search instead of before it
buildSmartContextLate(userMessage, list, f, clock) ==
    IF Len(list) = 0
    THEN [text |-> NoTweetsMessage, lines |-> <<>>, corpus |-> list,
          search |-> searchAllTweets(userMessage, list, f, clock),
          calls |-> [extractSearchTerms |-> 1, calculateRelevanceScore |-> 0,
                     readFileSync |-> 1]]
    ELSE contextOf(list, searchAllTweets(userMessage, list, f, clock),
                   extractSearchTerms(userMessage))

buildSmartContext(userMessage, list, f, clock) ==
    IF Len(list) = 0
    THEN [text |-> NoTweetsMessage, lines |-> <<>>, corpus |-> list,
          search |-> NoSearch,
          calls |-> [extractSearchTerms |-> 0, calculateRelevanceScore |-> 0,
                     readFileSync |-> 0]]
    ELSE contextOf(list, searchAllTweets(userMessage, list, f, clock),
                   extractSearchTerms(userMessage))

(***************************************************************************)
(* AIService.loadJsonData and what it calls                                *)
(***************************************************************************)
MainHandle == Chars("tekkusai")
RetweetHandles == {Chars("kurosunco"), Chars("glsswrksgg")}

KeepJsonTweet(tweet) ==
    IF tweet.full_text = <<>> THEN FALSE
    ELSE IF ~startsWith(tweet.full_text, Chars("RT @")) THEN TRUE
    ELSE \E handle \in RetweetHandles :
            startsWith(toLowerCase(tweet.full_text), Chars("rt @") \o handle \o Chars(":"))

convertJsonTweetToTweet(jsonTweet) ==
    [id |-> jsonTweet.id,
     text |-> jsonTweet.full_text,
     timestamp |-> jsonTweet.created_at,
     likes |-> jsonTweet.favorite_count,
     retweets |-> jsonTweet.retweet_count,
     replies |-> jsonTweet.reply_count,
     url |-> Chars("https://twitter.com/") \o MainHandle \o Chars("/status/") \o jsonTweet.id]

\* 3600000 ms
FallbackAge == 1

getFallbackTweets(clock) ==
    << [id |-> Chars("fallback_1"),
        text |-> Chars("Building amazing AI experiences with cutting-edge technology!"),
        timestamp |-> clock, likes |-> 0, retweets |-> 0, replies |-> 0, url |-> <<>>],
       [id |-> Chars("fallback_2"),
        text |-> Chars("Innovation in AI is accelerating faster than ever before."),
        timestamp |-> clock - FallbackAge, likes |-> 0, retweets |-> 0, replies |-> 0,
        url |-> <<>>] >>

\* the value loadJsonData assigns to this.tweets once the file has been read
LoadedTweets(f, clock) ==
    IF f.exists
    THEN LET kept == SelectSeq(f.records, KeepJsonTweet)
             converted == [i \in 1..Len(kept) |-> convertJsonTweetToTweet(kept[i])] \o <<>>
         IN  ByTimestampDesc(converted)
    ELSE getFallbackTweets(clock)

\* this.tweets.sort((a, b) => a.timestamp - b.timestamp), in getTweetStats
ByTimestampAsc(list) == SortDescByKey(list, [i \in 1..Len(list) |-> 0 - list[i].timestamp])

(***************************************************************************)
(* DiscordBot.splitMessage                                                 *)
(***************************************************************************)
MaxLength == 2000

Terminators == {".", "!", "?"}

\* the positions where /(?<=[.!?])\s+/ matches: white space that follows a
\* terminator
SeparatorStarts(s) == {i \in 2..Len(s) : s[i] \in SpaceSet /\ s[i - 1] \in Terminators}

\* the last position of the white space that starts at position i
SeparatorEnd(s, i) ==
    CHOOSE e \in i..Len(s) :
        /\ \A k \in i..e : s[k] \in SpaceSet
        /\ e = Len(s) \/ s[e + 1] \notin SpaceSet

\* message.split(/(?<=[.!?])\s+/) from position i on
RECURSIVE SentencesFrom(_, _)
SentencesFrom(s, i) ==
    LET starts == {k \in SeparatorStarts(s) : k >= i}
    IN  IF starts = {} THEN <<SubSeq(s, i, Len(s))>>
        ELSE LET j == CHOOSE k \in starts : \A m \in starts : k <= m
             IN  <<SubSeq(s, i, j - 1)>> \o SentencesFrom(s, SeparatorEnd(s, j) + 1)

Sentences(message) == SentencesFrom(message, 1)

\* the loop over the sentences from sentence k on
RECURSIVE SplitLoop(_, _, _, _)
SplitLoop(sentences, k, chunks, currentChunk) ==
    IF k > Len(sentences) THEN [chunks |-> chunks, currentChunk |-> currentChunk]
    ELSE LET sentence == sentences[k]
         IN  IF Len(currentChunk) + Len(sentence) + 1 <= MaxLength
             THEN SplitLoop(sentences, k + 1, chunks,
                            currentChunk
                            \o (IF currentChunk # <<>> THEN <<" ">> ELSE <<>>)
                            \o sentence)
             ELSE IF currentChunk # <<>>
             THEN SplitLoop(sentences, k + 1, Append(chunks, currentChunk), sentence)
             ELSE SplitLoop(sentences, k + 1,
                            Append(chunks, SubSeq(sentence, 1, Min(Len(sentence), MaxLength))),
                            currentChunk)

splitMessage(message) ==
    IF Len(message) <= MaxLength THEN <<message>>
    ELSE LET end == SplitLoop(Sentences(message), 1, <<>>, <<>>)
         IN  IF end.currentChunk # <<>>
             THEN Append(end.chunks, end.currentChunk)
             ELSE end.chunks

(***************************************************************************)
(* Inputs                                                                  *)
(***************************************************************************)
\* bounds
NumProcs == 2
MaxFileVersions == 2
MaxSmall == 2
Extra == 1
MaxWords == 2
MaxTicks == 1
MaxLikes == 250
MaxSentences == 2

\* Date.now(), in hours
BaseClock == 100000

Recent == BaseClock - HoursPerDay
Old == BaseClock - RecencyDays * HoursPerDay
Future == BaseClock + 420 * HoursPerDay

JsonRec(n, text, created, fav) ==
    [id |-> Digits(n), created_at |-> created, full_text |-> Chars(text),
     favorite_count |-> fav, retweet_count |-> 0, reply_count |-> 0]

NinjaText == "Ninja launching in 24 hours"

SmallPool ==
    { JsonRec(1, NinjaText, Recent, 0),
      JsonRec(2, NinjaText, Old, 0),
      JsonRec(2, "gm", Old, 0),
      JsonRec(3, "gm", Future, 250),
      JsonRec(3, "gm", Recent, 250),
      JsonRec(1, "gm ninja ninja", Old, 30),
      JsonRec(3, "RT @other: ninja", Recent, 0) }

Layouts == {"compact", "pretty", "padded"}

SeqsUpTo(S, n) == UNION {[1..k -> S] : k \in 0..n}

File(records, layout) == [exists |-> TRUE, records |-> records, layout |-> layout]
MissingFile == [exists |-> FALSE, records |-> <<>>, layout |-> "compact"]

SmallFiles == {File(r, l) : r \in SeqsUpTo(SmallPool, MaxSmall), l \in Layouts}

\* n records, newest first, one per line: the first RecentCount are unrelated
\* and score nothing, the later ones hold the phrase
TailFile(n) ==
    File([i \in 1..n |->
            JsonRec(i, IF i > RecentCount THEN "launching in ninja" ELSE "gm", Old - i, 0)] \o <<>>,
         "records")

\* n records, newest first, one per line, none holding a term: the records
\* from position from on have likes
LikedFile(n, from) ==
    File([i \in 1..n |-> JsonRec(i, "gm", Old - i, IF i >= from THEN 10 ELSE 0)] \o <<>>,
         "records")

\* n records of which the first two share an identifier
TwinFile(n) ==
    File([i \in 1..n |-> JsonRec(IF i = 1 THEN 2 ELSE i, "gm", Old - i, 0)] \o <<>>,
         "records")

BigFiles ==
    {TailFile(RecentCount + TopRelevantCount + k) : k \in 0..Extra}
    \cup {TailFile(MaxContextTweets + k) : k \in 0..Extra}
    \cup {LikedFile(RecentCount + k, RecentCount + 1) : k \in 0..Extra}
    \cup {LikedFile(RecentCount + k, 1) : k \in 0..Extra}
    \cup {TwinFile(RecentCount + k) : k \in 0..Extra}

\* n records, newest first, one per line, none holding a term and none with
\* likes: the last is one hour short of RecencyDays old at BaseClock, the
\* one before it two hours, and so on
AgingFile(n) ==
    File([i \in 1..n |-> JsonRec(i, "gm", Old + 1 + (n - i), 0)] \o <<>>, "records")

NinjaQuery == Chars("ninja release date")
StopQuery == Chars("the and or")
PhraseQuery == Chars("say \"launching in\"")
WhenQuery == Chars("when")

SmallQueries == {NinjaQuery, StopQuery, PhraseQuery, WhenQuery, <<>>}
BigQueries == {StopQuery, PhraseQuery}

SearchFiles == SmallFiles \cup BigFiles \cup {MissingFile}

QueriesFor(f) == IF f \in BigFiles THEN BigQueries ELSE SmallQueries

\* the contents the exporter gives the data file, one after the other; the
\* last is the file removed
FileVersions ==
    << File(<<JsonRec(1, NinjaText, Recent, 0), JsonRec(2, "gm", Old, 30)>>, "pretty"),
       File(<<JsonRec(3, "gm", Old, 0), JsonRec(1, NinjaText, Recent, 0)>>, "compact"),
       MissingFile >>

ServerFiles == {FileVersions[k] : k \in 1..Min(MaxFileVersions, Len(FileVersions))}

ServerQueries == {NinjaQuery}

\* tweets to score: two texts, timestamps on both sides of the RecencyDays
\* limit and of the current time, engagement counters on both sides of the cap
ScoreTexts == {"gm", NinjaText}
ScoreTimes == {Recent, Old + 1, Old, Old - 1, BaseClock, Future}
LikeCounts == {0, 9, 10, 190, 200, MaxLikes}
FewCounts == {0, 1}

ScoreTweet(text, timestamp, likes, retweets, replies) ==
    [id |-> Digits(1), text |-> Chars(text), timestamp |-> timestamp, likes |-> likes,
     retweets |-> retweets, replies |-> replies, url |-> <<>>]

\* two tweets that differ in their engagement counters only, a query and the
\* current time
ScoreInputs ==
    {[a |-> ScoreTweet(x, ts, l1, r1, p1), b |-> ScoreTweet(x, ts, l2, r2, p2),
      message |-> q, now |-> BaseClock] :
        x \in ScoreTexts, ts \in ScoreTimes, l1 \in LikeCounts, l2 \in LikeCounts,
        r1 \in FewCounts, r2 \in FewCounts, p1 \in FewCounts, p2 \in FewCounts,
        q \in {StopQuery, NinjaQuery}}

\* responses to split: at most MaxSentences sentences, each a run of one
\* letter closed by a full stop, of lengths on both sides of MaxLength,
\* joined by one gap or another and followed or not by white space
Letters(n) == [i \in 1..n |-> "a"] \o <<>>
SentenceOf(n) == Letters(n - 1) \o <<".">>
SentenceLengths == {2, MaxLength \div 2, MaxLength - 1, MaxLength, MaxLength + 1}
Gaps == {<<" ">>, <<" ", " ">>}

RECURSIVE JoinSentences(_, _)
JoinSentences(lengths, gap) ==
    IF Len(lengths) = 1 THEN SentenceOf(lengths[1])
    ELSE SentenceOf(lengths[1]) \o gap \o JoinSentences(Tail(lengths), gap)

SplitMessages ==
    {JoinSentences(ls, gap) \o end :
        ls \in SeqsUpTo(SentenceLengths, MaxSentences) \ {<<>>},
        gap \in Gaps, end \in {<<>>, <<" ">>}}

\* files and queries of the runs at different times
ClockFiles ==
    {AgingFile(RecentCount + 1 + k) : k \in 0..Extra}
    \cup {AgingFile(2), File(<<JsonRec(1, NinjaText, Recent, 0), JsonRec(2, "gm", Old + 1, 30)>>,
                            "pretty")}

ClockQueries == {StopQuery, NinjaQuery}

\* queries for the term extraction: every stop word alone, and the sequences
\* of at most MaxWords words of a few stop words and other words, each as it
\* stands and between double quotes
OtherWords == {"ninja", "release", "cat", "The"}
CoreWords == {"the", "and", "or", "when", "i"} \cup OtherWords

RECURSIVE JoinWords(_)
JoinWords(ws) ==
    IF ws = <<>> THEN <<>>
    ELSE IF Len(ws) = 1 THEN Chars(ws[1])
    ELSE Chars(ws[1]) \o Chars(" ") \o JoinWords(Tail(ws))

PlainQueries ==
    {JoinWords(<<w>>) : w \in Range(StopWordList)}
    \cup {JoinWords(ws) : ws \in SeqsUpTo(CoreWords, MaxWords)}

TermQueries == PlainQueries \cup {Quote \o q \o Quote : q \in PlainQueries}

(***************************************************************************)
(* State                                                                   *)
(***************************************************************************)
VARIABLES
    file,       \* the data file on disk
    files,      \* the contents the data file has had
    clock,      \* Date.now()
    tweets,     \* AIService.tweets
    jsonData,   \* AIService.jsonData
    isLoaded,   \* AIService.isLoaded
    listening,  \* fastify.listen has been called
    pc,         \* per thread of control: the request it serves and where it is
    msg,        \* per thread: userMessage of generateResponse
    rd,         \* per thread: what readFile has read for loadJsonData
    ctx,        \* per thread: context, the local of generateResponse
    input,      \* argument of the function under test
    output      \* its result

vars == <<file, files, clock, tweets, jsonData, isLoaded, listening, pc, msg, rd, ctx,
          input, output>>

Boot == 0
Procs == 1..NumProcs
Threads == {Boot} \cup Procs

None == [text |-> "none"]
Idle == [op |-> "none", at |-> "idle", ret |-> "none"]

\* an await on a promise that is already settled resumes in a microtask of
\* the same turn of the event loop; no request handler and no I/O callback
\* starts before the microtask queue is empty
NoMicrotask == \A t \in Threads : pc[t].at # "micro"

\* await this.loadJsonData(), called by thread t, which resumes at ret:
\* loadJsonData returns at once when isLoaded, else it awaits readFile
CallLoad(t, op, ret) ==
    pc' = [pc EXCEPT ![t] = [op |-> op, at |-> IF isLoaded THEN "micro" ELSE "io",
                             ret |-> ret]]

At(t, op, at, ret) == pc[t] = [op |-> op, at |-> at, ret |-> ret]

Goto(t, op, at, ret) == pc' = [pc EXCEPT ![t] = [op |-> op, at |-> at, ret |-> ret]]

(***************************************************************************)
(* AIService.loadJsonData after the isLoaded test                          *)
(***************************************************************************)
\* fs.promises.readFile reads the file, on the thread pool
FileRead(t) ==
    /\ pc[t].at = "io"
    /\ NoMicrotask
    /\ rd' = [rd EXCEPT ![t] = file]
    /\ pc' = [pc EXCEPT ![t].at = "cb"]
    /\ UNCHANGED <<file, files, clock, tweets, jsonData, isLoaded, listening, msg, ctx,
                   input, output>>

\* readFile settles: parse, filter, convert, sort, isLoaded = true; a file
\* that cannot be read gives the fallback tweets
LoadFinish(t) ==
    /\ pc[t].at = "cb"
    /\ NoMicrotask
    /\ tweets' = LoadedTweets(rd[t], clock)
    /\ jsonData' = IF rd[t].exists THEN rd[t].records ELSE jsonData
    /\ isLoaded' = TRUE
    /\ rd' = [rd EXCEPT ![t] = None]
    /\ pc' = [pc EXCEPT ![t].at = "micro"]
    /\ UNCHANGED <<file, files, clock, listening, msg, ctx, input, output>>

(***************************************************************************)
(* startServer: the initial getAllTweets, then fastify.listen              *)
(***************************************************************************)
BootLoad ==
    /\ At(Boot, "startup", "start", "none")
    /\ NoMicrotask
    /\ CallLoad(Boot, "startup", "listen")
    /\ UNCHANGED <<file, files, clock, tweets, jsonData, isLoaded, listening, msg, rd, ctx,
                   input, output>>

BootListen ==
    /\ At(Boot, "startup", "micro", "listen")
    /\ listening' = TRUE
    /\ Goto(Boot, "startup", "done", "none")
    /\ UNCHANGED <<file, files, clock, tweets, jsonData, isLoaded, msg, rd, ctx,
                   input, output>>

(***************************************************************************)
(* DiscordBot.handleMentionMessage -> AIService.generateResponse           *)
(***************************************************************************)
StartQuery(t, userMessage) ==
    /\ pc[t] = Idle
    /\ NoMicrotask
    /\ msg' = [msg EXCEPT ![t] = userMessage]
    /\ CallLoad(t, "query", "context")
    /\ UNCHANGED <<file, files, clock, tweets, jsonData, isLoaded, listening, rd, ctx,
                   input, output>>

\* tweetsToUse = this.tweets; context = this.buildSmartContext(...); then
\* the call of the model is awaited
QueryContext(t) ==
    /\ At(t, "query", "micro", "context")
    /\ ctx' = [ctx EXCEPT ![t] = buildSmartContext(msg[t], tweets, file, clock)]
    /\ Goto(t, "query", "model", "none")
    /\ UNCHANGED <<file, files, clock, tweets, jsonData, isLoaded, listening, msg, rd,
                   input, output>>

\* the call of the model settles (a failure is answered from
\* getFallbackResponse) and the handler sends the reply
ModelReply(t) ==
    /\ At(t, "query", "model", "none")
    /\ NoMicrotask
    /\ ctx' = [ctx EXCEPT ![t] = None]
    /\ msg' = [msg EXCEPT ![t] = <<>>]
    /\ pc' = [pc EXCEPT ![t] = Idle]
    /\ UNCHANGED <<file, files, clock, tweets, jsonData, isLoaded, listening, rd,
                   input, output>>

(***************************************************************************)
(* POST /refresh-tweets; AIService.clearMemory                             *)
(***************************************************************************)
\* clearMemory without this.isLoaded = false
clearMemoryStaysLoaded == [tweets |-> <<>>, jsonData |-> <<>>, isLoaded |-> TRUE]

clearMemory == [tweets |-> <<>>, jsonData |-> <<>>, isLoaded |-> FALSE]

RefreshStart(t) ==
    /\ pc[t] = Idle
    /\ NoMicrotask
    /\ listening
    /\ tweets' = clearMemory.tweets
    /\ jsonData' = clearMemory.jsonData
    /\ isLoaded' = clearMemory.isLoaded
    /\ Goto(t, "refresh", "micro", "reload")
    /\ UNCHANGED <<file, files, clock, listening, msg, rd, ctx, input, output>>

RefreshReload(t) ==
    /\ At(t, "refresh", "micro", "reload")
    /\ CallLoad(t, "refresh", "reply")
    /\ UNCHANGED <<file, files, clock, tweets, jsonData, isLoaded, listening, msg, rd, ctx,
                   input, output>>

RefreshReply(t) ==
    /\ At(t, "refresh", "micro", "reply")
    /\ pc' = [pc EXCEPT ![t] = Idle]
    /\ UNCHANGED <<file, files, clock, tweets, jsonData, isLoaded, listening, msg, rd, ctx,
                   input, output>>

(***************************************************************************)
(* GET /tweets and GET /tweets/json: getAllTweets, then getTweetStats      *)
(***************************************************************************)
TweetsStart(t) ==
    /\ pc[t] = Idle
    /\ NoMicrotask
    /\ listening
    /\ CallLoad(t, "tweets", "stats")
    /\ UNCHANGED <<file, files, clock, tweets, jsonData, isLoaded, listening, msg, rd, ctx,
                   input, output>>

TweetsStats(t) ==
    /\ At(t, "tweets", "micro", "stats")
    /\ CallLoad(t, "tweets", "sort")
    /\ UNCHANGED <<file, files, clock, tweets, jsonData, isLoaded, listening, msg, rd, ctx,
                   input, output>>

\* the body of getTweetStats after the load: this.tweets.sort(...) sorts the
\* array of the service itself
getTweetStats(list) == IF Len(list) = 0 THEN list ELSE ByTimestampAsc(list)

TweetsSort(t) ==
    /\ At(t, "tweets", "micro", "sort")
    /\ tweets' = getTweetStats(tweets)
    /\ pc' = [pc EXCEPT ![t] = Idle]
    /\ UNCHANGED <<file, files, clock, jsonData, isLoaded, listening, msg, rd, ctx,
                   input, output>>

(***************************************************************************)
(* GET /tweets/search/:keyword: getTweetsByKeyword                         *)
(***************************************************************************)
SearchStart(t) ==
    /\ pc[t] = Idle
    /\ NoMicrotask
    /\ listening
    /\ CallLoad(t, "search", "filter")
    /\ UNCHANGED <<file, files, clock, tweets, jsonData, isLoaded, listening, msg, rd, ctx,
                   input, output>>

\* this.tweets.filter(...) builds a new array
SearchFilter(t) ==
    /\ At(t, "search", "micro", "filter")
    /\ pc' = [pc EXCEPT ![t] = Idle]
    /\ UNCHANGED <<file, files, clock, tweets, jsonData, isLoaded, listening, msg, rd, ctx,
                   input, output>>

(***************************************************************************)
(* The exporter replaces the data file                                     *)
(***************************************************************************)
WriteFile ==
    /\ Cardinality(files) < Cardinality(ServerFiles)
    /\ file' = FileVersions[Cardinality(files) + 1]
    /\ files' = files \cup {file'}
    /\ UNCHANGED <<clock, tweets, jsonData, isLoaded, listening, pc, msg, rd, ctx,
                   input, output>>

(***************************************************************************)
(* The server: the startup load, and NumProcs requests at a time           *)
(***************************************************************************)
Init ==
    /\ file = FileVersions[1]
    /\ files = {file}
    /\ clock = BaseClock
    /\ tweets = <<>>
    /\ jsonData = <<>>
    /\ isLoaded = FALSE
    /\ listening = FALSE
    /\ pc = [t \in Threads |->
                IF t = Boot THEN [op |-> "startup", at |-> "start", ret |-> "none"] ELSE Idle]
    /\ msg = [t \in Threads |-> <<>>]
    /\ rd = [t \in Threads |-> None]
    /\ ctx = [t \in Threads |-> None]
    /\ input = <<>>
    /\ output = [done |-> FALSE, value |-> <<>>]

Next ==
    \/ BootLoad
    \/ BootListen
    \/ \E t \in Threads : FileRead(t)
    \/ \E t \in Threads : LoadFinish(t)
    \/ \E t \in Procs : \E q \in ServerQueries : StartQuery(t, q)
    \/ \E t \in Procs : QueryContext(t)
    \/ \E t \in Procs : ModelReply(t)
    \/ \E t \in Procs : RefreshStart(t)
    \/ \E t \in Procs : RefreshReload(t)
    \/ \E t \in Procs : RefreshReply(t)
    \/ \E t \in Procs : TweetsStart(t)
    \/ \E t \in Procs : TweetsStats(t)
    \/ \E t \in Procs : TweetsSort(t)
    \/ WriteFile

Spec == Init /\ [][Next]_vars

(***************************************************************************)
(* One caller at a time, on every file and query of the search inputs      *)
(***************************************************************************)
InitSearch ==
    /\ file \in SearchFiles
    /\ files = {file}
    /\ clock = BaseClock
    /\ tweets = <<>>
    /\ jsonData = <<>>
    /\ isLoaded = FALSE
    /\ listening = TRUE
    /\ pc = [t \in Threads |->
                IF t = Boot THEN [op |-> "startup", at |-> "done", ret |-> "none"] ELSE Idle]
    /\ msg = [t \in Threads |-> <<>>]
    /\ rd = [t \in Threads |-> None]
    /\ ctx = [t \in Threads |-> None]
    /\ input = <<>>
    /\ output = [done |-> FALSE, value |-> <<>>]

NextSearch ==
    \/ FileRead(1)
    \/ LoadFinish(1)
    \/ \E q \in QueriesFor(file) : StartQuery(1, q)
    \/ QueryContext(1)
    \/ ModelReply(1)
    \/ TweetsStart(1)
    \/ TweetsStats(1)
    \/ TweetsSort(1)
    \/ SearchStart(1)
    \/ SearchFilter(1)

SpecSearch == InitSearch /\ [][NextSearch]_vars

(***************************************************************************)
(* Two callers that query the same file while time passes and the file is  *)
(* removed                                                                 *)
(***************************************************************************)
\* the data file is removed: readFile and readFileSync fail from now on
RemoveFile ==
    /\ file.exists
    /\ file' = MissingFile
    /\ files' = files \cup {MissingFile}
    /\ UNCHANGED <<clock, tweets, jsonData, isLoaded, listening, pc, msg, rd, ctx,
                   input, output>>

\* Date.now() advances by an hour
Tick ==
    /\ clock < BaseClock + MaxTicks
    /\ clock' = clock + 1
    /\ UNCHANGED <<file, files, tweets, jsonData, isLoaded, listening, pc, msg, rd, ctx,
                   input, output>>

Runs == {1, 2}

InitClock ==
    /\ file \in ClockFiles
    /\ files = {file}
    /\ clock = BaseClock
    /\ tweets = <<>>
    /\ jsonData = <<>>
    /\ isLoaded = FALSE
    /\ listening = TRUE
    /\ pc = [t \in Threads |->
                IF t = Boot THEN [op |-> "startup", at |-> "done", ret |-> "none"] ELSE Idle]
    /\ msg = [t \in Threads |-> <<>>]
    /\ rd = [t \in Threads |-> None]
    /\ ctx = [t \in Threads |-> None]
    /\ input = <<>>
    /\ output = [done |-> FALSE, value |-> <<>>]

NextClock ==
    \/ \E t \in Runs : FileRead(t)
    \/ \E t \in Runs : LoadFinish(t)
    \/ \E t \in Runs : \E q \in ClockQueries : StartQuery(t, q)
    \/ \E t \in Runs : QueryContext(t)
    \/ \E t \in Runs : ModelReply(t)
    \/ Tick
    \/ RemoveFile

SpecClock == InitClock /\ [][NextClock]_vars

(***************************************************************************)
(* calculateRelevanceScore applied to the two tweets of every input of     *)
(* ScoreInputs                                                             *)
(***************************************************************************)
InitScore ==
    /\ file = MissingFile
    /\ files = {file}
    /\ clock = BaseClock
    /\ tweets = <<>>
    /\ jsonData = <<>>
    /\ isLoaded = FALSE
    /\ listening = FALSE
    /\ pc = [t \in Threads |-> Idle]
    /\ msg = [t \in Threads |-> <<>>]
    /\ rd = [t \in Threads |-> None]
    /\ ctx = [t \in Threads |-> None]
    /\ input \in ScoreInputs
    /\ output = [done |-> FALSE, value |-> <<>>]

\* the score of a tweet with the two bonuses that are part of it
Scored(tweet, userMessage, now) ==
    [score |-> calculateRelevanceScore(tweet, extractSearchTerms(userMessage),
                                       userMessage, now),
     engagement |-> EngagementPoints(tweet),
     recency |-> RecencyPoints(tweet, now)]

ScoreBoth ==
    /\ ~output.done
    /\ output' = [done |-> TRUE,
                  value |-> [a |-> Scored(input.a, input.message, input.now),
                             b |-> Scored(input.b, input.message, input.now)]]
    /\ UNCHANGED <<file, files, clock, tweets, jsonData, isLoaded, listening, pc, msg, rd,
                   ctx, input>>

NextScore == ScoreBoth

SpecScore == InitScore /\ [][NextScore]_vars

(***************************************************************************)
(* splitMessage applied to every response of SplitMessages                 *)
(***************************************************************************)
InitSplit ==
    /\ file = MissingFile
    /\ files = {file}
    /\ clock = BaseClock
    /\ tweets = <<>>
    /\ jsonData = <<>>
    /\ isLoaded = FALSE
    /\ listening = FALSE
    /\ pc = [t \in Threads |-> Idle]
    /\ msg = [t \in Threads |-> <<>>]
    /\ rd = [t \in Threads |-> None]
    /\ ctx = [t \in Threads |-> None]
    /\ input \in SplitMessages
    /\ output = [done |-> FALSE, value |-> <<>>]

SplitResponse ==
    /\ ~output.done
    /\ output' = [done |-> TRUE, value |-> splitMessage(input)]
    /\ UNCHANGED <<file, files, clock, tweets, jsonData, isLoaded, listening, pc, msg, rd,
                   ctx, input>>

NextSplit == SplitResponse

SpecSplit == InitSplit /\ [][NextSplit]_vars

(***************************************************************************)
(* grepSearchJsonFile applied to every file and term list of GrepInputs    *)
(***************************************************************************)
GrepPool ==
    { JsonRec(1, NinjaText, Recent, 0),
      JsonRec(2, "gm", Old, 0),
      JsonRec(3, "gm NINJA", Old, 0) }

GrepLayouts == {"compact", "pretty", "padded", "before", "after"}

GrepFiles ==
    {File(r, l) : r \in SeqsUpTo(GrepPool, MaxSmall), l \in GrepLayouts} \cup {MissingFile}

GrepTerms ==
    { <<>>, <<Chars("ninja")>>, <<Chars("gm")>>, <<Chars("launching in"), Chars("soon")>> }

GrepInputs == {[searchTerms |-> ts, file |-> f] : ts \in GrepTerms, f \in GrepFiles}

InitGrep ==
    /\ file = MissingFile
    /\ files = {file}
    /\ clock = BaseClock
    /\ tweets = <<>>
    /\ jsonData = <<>>
    /\ isLoaded = FALSE
    /\ listening = FALSE
    /\ pc = [t \in Threads |-> Idle]
    /\ msg = [t \in Threads |-> <<>>]
    /\ rd = [t \in Threads |-> None]
    /\ ctx = [t \in Threads |-> None]
    /\ input \in GrepInputs
    /\ output = [done |-> FALSE, value |-> {}]

GrepSearch ==
    /\ ~output.done
    /\ output' = [done |-> TRUE, value |-> grepSearchJsonFile(input.searchTerms, input.file)]
    /\ UNCHANGED <<file, files, clock, tweets, jsonData, isLoaded, listening, pc, msg, rd,
                   ctx, input>>

NextGrep == GrepSearch

SpecGrep == InitGrep /\ [][NextGrep]_vars

(***************************************************************************)
(* extractSearchTerms applied to every query of TermQueries                *)
(***************************************************************************)
NotRun == [done |-> FALSE, value |-> <<>>]

InitTerms ==
    /\ file = MissingFile
    /\ files = {file}
    /\ clock = BaseClock
    /\ tweets = <<>>
    /\ jsonData = <<>>
    /\ isLoaded = FALSE
    /\ listening = FALSE
    /\ pc = [t \in Threads |-> Idle]
    /\ msg = [t \in Threads |-> <<>>]
    /\ rd = [t \in Threads |-> None]
    /\ ctx = [t \in Threads |-> None]
    /\ input \in TermQueries
    /\ output = NotRun

ExtractTerms ==
    /\ output = NotRun
    /\ output' = [done |-> TRUE, value |-> extractSearchTerms(input)]
    /\ UNCHANGED <<file, files, clock, tweets, jsonData, isLoaded, listening, pc, msg, rd,
                   ctx, input>>

NextTerms == ExtractTerms

SpecTerms == InitTerms /\ [][NextTerms]_vars

(***************************************************************************)
(* Properties                                                              *)
(***************************************************************************)
\* the threads that hold a context computed by buildSmartContext
Queried == {t \in Threads : ctx[t] # None}

Ids(list) == {list[i].id : i \in 1..Len(list)}

\* C1: the record list returned by searchAllTweets holds no two records with
\* the same identifier, also when records of the corpus share an identifier
C1_NoDuplicateIds ==
    \A t \in Queried :
        LET result == ctx[t].search.result
        IN  \A i, j \in 1..Len(result) : i # j => result[i].id # result[j].id

\* two records of the corpus share an identifier, both are handed to the
\* Deduplicator and one of them is removed
C1_Witness ==
    \E t \in Queried :
        LET s == ctx[t].search
            handed == s.recentTweets \o s.topRelevantTweets
        IN  /\ \E i, j \in 1..Len(handed) :
                  handed[i].id = handed[j].id /\ handed[i] # handed[j]
            /\ Len(s.result) > 0

\* C2: for a non-empty corpus the record list returned by searchAllTweets
\* holds at most 200 records
C2_AtMostMaxContext ==
    \A t \in Queried :
        Len(ctx[t].corpus) > 0 => Len(ctx[t].search.result) <= MaxContextTweets

\* the deduplicated combination holds more than 200 records and 200 are returned
C2_Witness ==
    \E t \in Queried :
        /\ Len(ctx[t].search.combinedTweets) > MaxContextTweets
        /\ Len(ctx[t].search.result) = MaxContextTweets

\* C3 as stated: the recency window hands at least min(75, corpus size)
\* distinct identifiers to the Deduplicator
C3_Original ==
    \A t \in Queried :
        Len(ctx[t].corpus) > 0 =>
            Cardinality(Ids(ctx[t].search.recentTweets))
                >= Min(RecentCount, Len(ctx[t].corpus))

\* the first 75 records of the corpus have pairwise distinct identifiers
WindowIdsDistinct(corpus) ==
    \A i, j \in 1..Min(RecentCount, Len(corpus)) : i # j => corpus[i].id # corpus[j].id

\* C3 amended: the recency window hands the first min(75, corpus size)
\* records of the corpus to the Deduplicator, which are that many distinct
\* identifiers when the identifiers of these records are pairwise distinct
C3_WindowRecords ==
    \A t \in Queried :
        LET corpus == ctx[t].corpus
            recentTweets == ctx[t].search.recentTweets
            n == Min(RecentCount, Len(corpus))
        IN  Len(corpus) > 0 =>
                /\ Len(recentTweets) = n
                /\ \A i \in 1..n : recentTweets[i] = corpus[i]
                /\ WindowIdsDistinct(corpus) => Cardinality(Ids(recentTweets)) = n

\* a corpus larger than the window, the window full
C3_Witness ==
    \E t \in Queried :
        /\ Len(ctx[t].corpus) > RecentCount
        /\ Len(ctx[t].search.recentTweets) = RecentCount
        /\ WindowIdsDistinct(ctx[t].corpus)

\* the text of the tweet contains a quoted phrase of the message
HoldsQuotedPhrase(tweet, userMessage) ==
    LET quotedPhrases == MatchQuoted(userMessage)
    IN  \E k \in 1..Len(quotedPhrases) :
            includes(toLowerCase(tweet.text), toLowerCase(quotedPhrases[k]))

\* the records within the top 150 of the ranking that hold a quoted phrase
TopPhraseTweets(t) ==
    LET ranked == ctx[t].search.searchResults
    IN  {ranked[i].tweet : i \in {k \in 1..Min(Len(ranked), TopRelevantCount) :
                                    HoldsQuotedPhrase(ranked[k].tweet, msg[t])}}

\* C4 as stated: a record that holds a quoted phrase of the query and is
\* within the top 150 of the ranking is in the final record set (here in
\* the weaker form: its identifier is)
C4_Original ==
    \A t \in Queried :
        \A tweet \in TopPhraseTweets(t) : tweet.id \in Ids(ctx[t].search.result)

\* C4 amended: such a record is in the final record set when the
\* deduplicated combination holds at most 200 records and no other record
\* handed to the Deduplicator has its identifier; when one has, a record
\* with that identifier is in the final set
C4_TopPhraseKept ==
    \A t \in Queried :
        LET s == ctx[t].search
            handed == s.recentTweets \o s.topRelevantTweets
        IN  Len(s.combinedTweets) <= MaxContextTweets =>
                \A tweet \in TopPhraseTweets(t) :
                    /\ tweet.id \in Ids(s.result)
                    /\ (\A i \in 1..Len(handed) : handed[i].id = tweet.id => handed[i] = tweet)
                         => tweet \in Range(s.result)

\* a record outside the recency window holds the phrase and is returned
C4_Witness ==
    \E t \in Queried :
        \E tweet \in TopPhraseTweets(t) :
            /\ tweet \notin Range(ctx[t].search.recentTweets)
            /\ tweet \in Range(ctx[t].search.result)

\* C5: on an empty corpus buildSmartContext returns the fixed message, and
\* has not extracted terms, scored a record or read the raw file
C5_EmptyCorpusMessage ==
    \A t \in Queried :
        Len(ctx[t].corpus) = 0 =>
            /\ ctx[t].text = NoTweetsMessage
            /\ ctx[t].lines = <<>>
            /\ ctx[t].calls.extractSearchTerms = 0
            /\ ctx[t].calls.calculateRelevanceScore = 0
            /\ ctx[t].calls.readFileSync = 0

\* a query with terms, on a loaded corpus that is empty while the file holds lines
C5_Witness ==
    \E t \in Queried :
        /\ Len(ctx[t].corpus) = 0
        /\ isLoaded
        /\ extractSearchTerms(msg[t]) # <<>>
        /\ file.exists

\* the query holds at least one word and all its words are stop words
OnlyStopWords(userMessage) ==
    LET words == MatchWords(toLowerCase(userMessage))
    IN  /\ words # <<>>
        /\ \A i \in 1..Len(words) : words[i] \in stopWords

\* the query holds words and blanks only
WordsAndBlanks(userMessage) ==
    \A i \in 1..Len(userMessage) : userMessage[i] \in WordCharSet \cup SpaceSet

\* C6 as stated: a query of stop words only has an empty term set (here for
\* the queries that hold nothing but stop words and blanks)
C6_Original ==
    (output.done /\ OnlyStopWords(input) /\ WordsAndBlanks(input)) => output.value = <<>>

\* C6 amended: a query of stop words only, none of which is "when" and none
\* of which stands between double quotes, has an empty term set
C6_StopWordsNoTerms ==
    (/\ output.done
     /\ OnlyStopWords(input)
     /\ MatchQuoted(input) = <<>>
     /\ Chars("when") \notin Range(MatchWords(toLowerCase(input))))
    => output.value = <<>>

\* two stop words of more than two letters, extracted
C6_Witness ==
    /\ output.done
    /\ input = Chars("the and")
    /\ output.value = <<>>

\* the records of a list, as a set
Records(list) == Range(list)

\* some record outside the recency window has a positive engagement or
\* recency bonus
BonusOutsideWindow(corpus, clock0) ==
    \E i \in (RecentCount + 1)..Len(corpus) :
        EngagementPoints(corpus[i]) + RecencyPoints(corpus[i], clock0) > 0

\* C7 as stated: with an empty term set the final record set is the recency
\* window, deduplicated, and holds no record from outside the window
C7_Original ==
    \A t \in Queried :
        (Len(ctx[t].corpus) > 0 /\ ctx[t].search.searchTerms = <<>>) =>
            Records(ctx[t].search.result)
                = Records(deduplicateTweets(Slice0(ctx[t].corpus, RecentCount)))

\* C7 amended: with an empty term set every record of the final set from
\* outside the recency window has a positive engagement or recency bonus,
\* and the final set is the deduplicated recency window when no record
\* outside the window has such a bonus
C7_WindowPlusBonus ==
    \A t \in Queried :
        LET corpus == ctx[t].corpus
            result == ctx[t].search.result
            window == Slice0(corpus, RecentCount)
        IN  (Len(corpus) > 0 /\ ctx[t].search.searchTerms = <<>>) =>
                /\ \A i \in 1..Len(result) :
                      result[i] \notin Records(window) =>
                          EngagementPoints(result[i]) + RecencyPoints(result[i], clock) > 0
                /\ ~BonusOutsideWindow(corpus, clock) =>
                      Records(result) = Records(deduplicateTweets(window))

\* an empty term set on a corpus larger than the window whose records
\* outside the window have no bonus
C7_Witness ==
    \E t \in Queried :
        /\ Len(ctx[t].corpus) > RecentCount
        /\ ctx[t].search.searchTerms = <<>>
        /\ ~BonusOutsideWindow(ctx[t].corpus, clock)
        /\ Len(ctx[t].search.result) > 0

\* the record matches no term of the query
Unrelated(tweet, searchTerms) ==
    \A k \in 1..Len(searchTerms) :
        ~includes(toLowerCase(tweet.text), toLowerCase(searchTerms[k]))

\* C8 as stated: for the query 'ninja release date' a record with the text
\* 'Ninja launching in 24 hours' has a higher final score than every record
\* that matches no term
C8_Original ==
    \A t \in Queried :
        LET scored == ctx[t].search.scored
        IN  msg[t] = NinjaQuery =>
                \A a, b \in 1..Len(scored) :
                    (/\ scored[a].tweet.text = Chars(NinjaText)
                     /\ Unrelated(scored[b].tweet, ctx[t].search.searchTerms))
                    => scored[a].score > scored[b].score

\* the +50 of the raw match is in the score of the record
Boosted(tweet, grepMatches) == tweet.id \in grepMatches

\* C8 amended: it has a higher final score than every record that matches
\* no term, is not dated later than the current time and has the raw-match
\* boost only if the 'Ninja launching in 24 hours' record has it
C8_NinjaAboveUnrelated ==
    \A t \in Queried :
        LET scored == ctx[t].search.scored
            grepMatches == ctx[t].search.grepMatches
        IN  msg[t] = NinjaQuery =>
                \A a, b \in 1..Len(scored) :
                    (/\ scored[a].tweet.text = Chars(NinjaText)
                     /\ Unrelated(scored[b].tweet, ctx[t].search.searchTerms)
                     /\ scored[b].tweet.timestamp <= clock
                     /\ Boosted(scored[b].tweet, grepMatches)
                            => Boosted(scored[a].tweet, grepMatches))
                    => scored[a].score > scored[b].score

\* the Ninja record without engagement, thirty days old, beside an
\* unrelated recent record with capped engagement, both with the boost
C8_Witness ==
    \E t \in Queried :
        LET scored == ctx[t].search.scored
            grepMatches == ctx[t].search.grepMatches
        IN  /\ msg[t] = NinjaQuery
            /\ \E a, b \in 1..Len(scored) :
                  /\ scored[a].tweet.text = Chars(NinjaText)
                  /\ scored[a].tweet.likes = 0
                  /\ scored[a].tweet.timestamp = Old
                  /\ Unrelated(scored[b].tweet, ctx[t].search.searchTerms)
                  /\ scored[b].tweet.timestamp = Recent
                  /\ EngagementPoints(scored[b].tweet) = EngagementCap * ScoreUnit
                  /\ Boosted(scored[b].tweet, grepMatches)
                  /\ Boosted(scored[a].tweet, grepMatches)

\* thread t completes a load in this step
LoadStep(t) == pc[t].at = "cb" /\ pc'[t].at = "micro"

\* thread t calls clearMemory in this step
ClearStep(t) == pc[t] = Idle /\ pc'[t].op = "refresh"

\* C9: no step but the completion of a load and clearMemory changes
\* this.tweets: the records and their order stay as loaded
C9_CorpusNotMutated ==
    [][tweets' # tweets => \E t \in Threads : LoadStep(t) \/ ClearStep(t)]_vars

\* the two lists hold the same records, each as many times
SameRecords(a, b) ==
    /\ Len(a) = Len(b)
    /\ \A x \in Records(a) \cup Records(b) :
          Cardinality({i \in 1..Len(a) : a[i] = x})
              = Cardinality({i \in 1..Len(b) : b[i] = x})

SameRun(t, u) ==
    /\ msg[t] = msg[u]
    /\ ctx[t].corpus = ctx[u].corpus
    /\ ctx[t].search.readable = ctx[u].search.readable

\* the selected record set and the context string are the same
SameContext(t, u) ==
    /\ ctx[t].search.result = ctx[u].search.result
    /\ ctx[t].text = ctx[u].text
    /\ ctx[t].lines = ctx[u].lines

\* C11 as stated: two runs of the relevance computation on the same corpus,
\* the same data file and the same query select the same records and give
\* the same context string, whatever the time of each run
C11_Original ==
    \A t, u \in Queried : SameRun(t, u) => SameContext(t, u)

\* C11 amended: they do when both runs read the same time, or when the
\* corpus holds at most 75 records, all of them in the recency window
C11_SameTimeOrWindow ==
    \A t, u \in Queried :
        /\ SameRun(t, u)
        /\ \/ ctx[t].search.now = ctx[u].search.now
           \/ Len(ctx[t].corpus) <= RecentCount
        => SameContext(t, u)

\* two runs at different times on a corpus within the window, in which the
\* score of a record has changed between the runs
C11_Witness ==
    \E t, u \in Queried :
        /\ SameRun(t, u)
        /\ ctx[t].search.now # ctx[u].search.now
        /\ Len(ctx[t].corpus) > 0
        /\ Len(ctx[t].corpus) <= RecentCount
        /\ ctx[t].search.scored # ctx[u].search.scored

\* likes + reposts + replies
Engagement(tweet) == tweet.likes + tweet.retweets + tweet.replies

\* C12: the engagement bonus does not decrease when likes + reposts + replies
\* grow and is at most 20, so the scores of two tweets that differ in their
\* engagement counters only differ by at most 20
C12_EngagementMonotoneCapped ==
    output.done =>
        LET a == output.value.a
            b == output.value.b
        IN  /\ Engagement(input.a) <= Engagement(input.b) => a.engagement <= b.engagement
            /\ a.engagement >= 0 /\ a.engagement <= EngagementCap * ScoreUnit
            /\ b.engagement >= 0 /\ b.engagement <= EngagementCap * ScoreUnit
            /\ a.score - b.score <= EngagementCap * ScoreUnit
            /\ b.score - a.score <= EngagementCap * ScoreUnit

\* one tweet without engagement, its twin beyond the cap: the scores are 20
\* apart
C12_Witness ==
    /\ output.done
    /\ Engagement(input.a) = 0
    /\ Engagement(input.b) > EngagementCap * EngagementDivisor
    /\ output.value.b.score - output.value.a.score = EngagementCap * ScoreUnit

\* C18: the recency bonus of a tweet is at least 0 and at most 2, whatever
\* its timestamp, and 0 for a tweet 30 or more days old
C18_RecencyWithinTwo ==
    output.done =>
        /\ output.value.a.recency >= 0
        /\ output.value.a.recency <= RecencyMax * ScoreUnit
        /\ input.now - input.a.timestamp >= RecencyDays * HoursPerDay
               => output.value.a.recency = 0

\* the score of every tweet of the corpus is its calculateRelevanceScore,
\* without the boost
NoneBoosted(t) ==
    LET s == ctx[t].search
    IN  /\ Len(s.scored) = Len(ctx[t].corpus)
        /\ \A i \in 1..Len(s.scored) :
               s.scored[i].score
                   = calculateRelevanceScore(ctx[t].corpus[i], s.searchTerms, msg[t], s.now)

\* C13: when the data file cannot be read the search has an empty match
\* set, no tweet receives the boost, and the context is built all the same
\* from the tweets in memory
C13_UnreadableNoBoost ==
    \A t \in Queried :
        Len(ctx[t].corpus) > 0 /\ ~ctx[t].search.readable =>
            /\ ctx[t].search.grepMatches = {}
            /\ NoneBoosted(t)
            /\ ctx[t].text # NoTweetsMessage
            /\ Len(ctx[t].lines) = Len(ctx[t].search.result)
            /\ Len(ctx[t].lines) > 0

\* the file has been removed after the load and the query has a term that a
\* tweet in memory holds
C13_Witness ==
    \E t \in Queried :
        /\ ~ctx[t].search.readable
        /\ \E i \in 1..Len(ctx[t].corpus) : \E k \in 1..Len(ctx[t].search.searchTerms) :
              /\ includes(toLowerCase(ctx[t].corpus[i].text), ctx[t].search.searchTerms[k])
              /\ ctx[t].corpus[i].id \notin Ids(getFallbackTweets(clock))
        /\ Len(ctx[t].lines) > 0

\* C14: every chunk that splitMessage returns has at most 2000 characters
C14_ChunksWithinLimit ==
    output.done => \A i \in 1..Len(output.value) : Len(output.value[i]) <= MaxLength

NotSpace(c) == c \notin SpaceSet

\* C20: splitMessage loses no content: the characters of the chunks that are
\* not white space are those of the message, in the same order
C20_NoContentLost ==
    output.done => SelectSeq(Flatten(output.value), NotSpace) = SelectSeq(input, NotSpace)

\* the score of calculateRelevanceScore for record i of the corpus of t
EngineScore(t, i) ==
    calculateRelevanceScore(ctx[t].corpus[i], ctx[t].search.searchTerms, msg[t],
                            ctx[t].search.now)

\* the score with the boost of a raw match added
FinalScore(t, i) ==
    EngineScore(t, i)
    + (IF ctx[t].corpus[i].id \in ctx[t].search.grepMatches THEN GrepBoost * ScoreUnit ELSE 0)

\* C15 as stated: every record of the ranking has a strictly positive score
\* before the boost
C15_Original ==
    \A t \in Queried :
        \A i \in 1..Len(ctx[t].corpus) :
            (\E k \in 1..Len(ctx[t].search.searchResults) :
                ctx[t].search.searchResults[k].tweet = ctx[t].corpus[i])
            => EngineScore(t, i) > 0

\* C15 amended: a record is in the ranking exactly when its score with the
\* boost added is strictly positive, and it is ranked with that score; a
\* record that scores 0 before the boost is ranked when its identifier is a
\* raw match
C15_BoostBeforeTest ==
    \A t \in Queried :
        LET ranked == ctx[t].search.searchResults
        IN  /\ \A i \in 1..Len(ctx[t].corpus) :
                  FinalScore(t, i) > 0
                  <=> \E k \in 1..Len(ranked) :
                         ranked[k] = [tweet |-> ctx[t].corpus[i], score |-> FinalScore(t, i)]
            /\ \A k \in 1..Len(ranked) :
                  \E i \in 1..Len(ctx[t].corpus) : ranked[k].tweet = ctx[t].corpus[i]

\* a record that scores 0 before the boost is a raw match and is ranked
C15_Witness ==
    \E t \in Queried :
        \E i \in 1..Len(ctx[t].corpus) :
            /\ EngineScore(t, i) = 0
            /\ ctx[t].corpus[i].id \in ctx[t].search.grepMatches
            /\ \E k \in 1..Len(ctx[t].search.searchResults) :
                  ctx[t].search.searchResults[k].tweet = ctx[t].corpus[i]

(***************************************************************************)
(* The lines the raw search credits                                        *)
(***************************************************************************)
\* the lines of the searched file that hold a term, whatever the case
TermLines ==
    LET lines == FileLines(input.file)
    IN  {i \in 1..Len(lines) :
            \E t \in 1..Len(input.searchTerms) :
                includes(toLowerCase(lines[i]), toLowerCase(input.searchTerms[t]))}

\* every identifier that occurs on a line
IdsOn(line) == {IdCaptureAt(line, p) : p \in 1..Len(line)} \ {<<>>}

\* C16 as stated: every identifier that occurs on a line at most 20 lines
\* from a line that holds a term is in the set the raw search returns
C16_Original ==
    (output.done /\ input.file.exists) =>
        LET lines == FileLines(input.file)
        IN  \A i \in TermLines : \A j \in 1..Len(lines) :
                (i - j <= GrepContextLines /\ j - i <= GrepContextLines)
                    => IdsOn(lines[j]) \subseteq output.value

\* C16 amended: the set the raw search returns holds exactly the first
\* identifier of each line j with i - 20 <= j <= i + 19 for a line i that
\* holds a term
C16_FirstIdOfWindow ==
    (output.done /\ input.file.exists) =>
        LET lines == FileLines(input.file)
            window == {j \in 1..Len(lines) :
                          \E i \in TermLines : i - GrepContextLines <= j
                                                /\ j <= i + GrepContextLines - 1}
        IN  output.value = {IdMatch(lines[j]) : j \in window} \ {<<>>}

\* an identifier 20 lines after a line that holds a term is left out while
\* another identifier is returned
C16_Witness ==
    /\ output.done
    /\ input.file.exists
    /\ output.value # {}
    /\ LET lines == FileLines(input.file)
       IN  \E i \in TermLines :
              /\ i + GrepContextLines <= Len(lines)
              /\ IdMatch(lines[i + GrepContextLines]) # <<>>
              /\ IdMatch(lines[i + GrepContextLines]) \notin output.value

(***************************************************************************)
(* The order of the ranking                                                *)
(***************************************************************************)
\* the entries of a list of scored records that have score v, in list order
WithScore(list, v) ==
    LET Has(r) == r.score = v
    IN  SelectSeq(list, Has)

\* C17: the ranking holds the candidates in descending order of final score,
\* candidates of equal score in corpus order, and the relevant set is its
\* first 150 records
C17_StableTop150 ==
    \A t \in Queried :
        LET ranked == ctx[t].search.searchResults
            candidates == SelectSeq(ctx[t].search.scored, IsCandidate)
            top == ctx[t].search.topRelevantTweets
        IN  /\ Len(ranked) = Len(candidates)
            /\ \A p \in 1..(Len(ranked) - 1) : ranked[p].score >= ranked[p + 1].score
            /\ \A v \in {candidates[k].score : k \in 1..Len(candidates)} :
                  WithScore(ranked, v) = WithScore(candidates, v)
            /\ Len(top) = Min(TopRelevantCount, Len(ranked))
            /\ \A p \in 1..Len(top) : top[p] = ranked[p].tweet

\* more than 150 candidates, and the last one kept has the score of the
\* first one dropped
C17_Witness ==
    \E t \in Queried :
        LET ranked == ctx[t].search.searchResults
        IN  /\ Len(ranked) > TopRelevantCount
            /\ ranked[TopRelevantCount].score = ranked[TopRelevantCount + 1].score
            /\ Len(ctx[t].search.topRelevantTweets) = TopRelevantCount

(***************************************************************************)
(* The reads of the data file                                              *)
(***************************************************************************)
\* the callers of loadJsonData whose readFile has returned the file and
\* whose parse is still to run
HoldingRead == {t \in Threads : pc[t].at = "cb"}

\* C19: the data file is read and parsed at most once before the first
\* clearMemory.  No clearMemory runs before the server listens, so until
\* then at most one caller has read the file: one that holds its content,
\* or the one whose parse has set isLoaded
C19_ReadOnce ==
    ~listening => Cardinality(HoldingRead) + (IF isLoaded THEN 1 ELSE 0) <= 1

====
